---- MODULE Spec2Model ----
(***************************************************************************)
(* CRUD resource handlers of the Express service.                          *)
(*                                                                         *)
(*   - the in-memory user store  (controllers/user.controller.js,          *)
(*     src/unnamed/part_002): a module-level array mutated by six          *)
(*     synchronous handlers;                                               *)
(*   - the persisted product store (controllers/product.controller.js      *)
(*     over models/product.model.js).                                      *)
(*                                                                         *)
(* A JSON object is a function from its keys to its values; {} is << >>.   *)
(* A path parameter is the sequence of its characters.                     *)
(***************************************************************************)
EXTENDS Integers, Sequences, FiniteSets, TLC

VARIABLES users,     \* the users array of user.controller.js
          products,  \* the products collection, in insertion order
          nextOid,   \* the ObjectId the next new document is given
          connected, \* the database answers the operations sent to it
          now,       \* the value Date.now() returns, in milliseconds
          resource,  \* the router the requests of this run go to
          req,       \* the request handled last: handler, path parameter, body
          resp,      \* the response sent for it: status and JSON body
          inflight,  \* the handler invocations that have started and not ended
          running,   \* the invocation that holds the thread, 0 when none does
          last       \* what the invocation that ended last sent and issued

vars == <<users, products, nextOid, connected, now, resource, req, resp,
          inflight, running, last>>

\* ---------------------------------------------------------------- bounds
MaxUsers == 2        \* creates are refused by the model beyond this length
MaxOid == 2          \* the last ObjectId the model hands out
MaxTime == 11        \* the clock stops advancing here
StartTime == 10      \* Date.now() when the process starts
MaxInflight == 2     \* handler invocations that can be suspended together

\* ------------------------------------------------------- JavaScript values
\* Number(text) of a text that is not a numeric literal.
NaN == -1

\* x === y on the values above: NaN equals nothing, itself included.
StrictEq(x, y) == x # NaN /\ y # NaN /\ x = y

DigitChars == <<"0", "1", "2", "3", "4", "5", "6", "7", "8", "9">>

IsDigit(c) == \E d \in 1..10 : DigitChars[d] = c

DigitVal(c) == (CHOOSE d \in 1..10 : DigitChars[d] = c) - 1

RECURSIVE Decimal(_)
Decimal(s) ==
    IF s = << >> THEN 0
    ELSE 10 * Decimal(SubSeq(s, 1, Len(s) - 1)) + DigitVal(s[Len(s)])

\* Number(req.params.id) || 1: a default where the text is not numeric.
NumberOrOne(s) ==
    IF s # << >> /\ \A i \in 1..Len(s) : IsDigit(s[i]) THEN Decimal(s) ELSE 1

\* Number(req.params.id): the decimal value of an all-digit text, else NaN.
Number(s) ==
    IF s # << >> /\ \A i \in 1..Len(s) : IsDigit(s[i]) THEN Decimal(s) ELSE NaN

\* String(n) for an integer n >= 0: the text a client puts in the path.
RECURSIVE String(_)
String(n) ==
    IF n < 10 THEN <<DigitChars[n + 1]>>
    ELSE String(n \div 10) \o <<DigitChars[(n % 10) + 1]>>

\* { ...a, ...b }: the keys of both, b's value where both have the key.
Spread(a, b) ==
    [k \in DOMAIN a \cup DOMAIN b |-> IF k \in DOMAIN b THEN b[k] ELSE a[k]]

\* ------------------------------------------------------------ user inputs
BodyNames == {"b"}
BodyIds == {1}

\* Request bodies: every JSON object over the keys _id and name with these
\* values (the fixture record also has an email, which no body carries).
UserBodies ==
    { Spread(i, n) :
        i \in { << >> } \cup { [_id |-> v] : v \in BodyIds },
        n \in { << >> } \cup { [name |-> v] : v \in BodyNames } }

NonNumericParam == <<"a", "b", "c">>

UserParams == { String(n) : n \in {1} \cup StartTime..MaxTime } \cup {NonNumericParam}

\* data.json: the fixture the array is loaded from.
FixtureUsers == << [_id |-> 1, name |-> "a", email |-> "e"] >>

NoParam == << >>
NoBody == << >>

\* ---------------------------------------------------------- array helpers
\* users.findIndex(u => u._id === userId): 0-based, -1 when none matches.
findIndex(arr, userId) ==
    IF \E i \in 1..Len(arr) : StrictEq(arr[i]._id, userId)
    THEN (CHOOSE i \in 1..Len(arr) :
            /\ StrictEq(arr[i]._id, userId)
            /\ \A j \in 1..(i - 1) : ~StrictEq(arr[j]._id, userId)) - 1
    ELSE -1

\* arr.splice(idx, 1); arr.push(item): the record moves to the end.
spliceThenPush(arr, idx, item) ==
    Append(SubSeq(arr, 1, idx) \o SubSeq(arr, idx + 2, Len(arr)), item)

\* arr.splice(idx, 1, item): the element at 0-based idx replaced by item.
spliceReplace(arr, idx, item) ==
    [i \in 1..Len(arr) |-> IF i = idx + 1 THEN item ELSE arr[i]]

\* arr.splice(idx): the element at 0-based idx and all after it removed.
spliceTruncate(arr, idx) == SubSeq(arr, 1, idx)

\* arr.splice(idx, 1): the element at 0-based idx removed.
spliceRemove(arr, idx) ==
    SubSeq(arr, 1, idx) \o SubSeq(arr, idx + 2, Len(arr))

\* res.status(s).json(j)
Reply(s, j) == [status |-> s, json |-> j]

UserNotFound == Reply(404, [success |-> FALSE, message |-> "User not found"])

\* --------------------------------------------------------- user handlers
\* Each handler maps the array and the request to the array it leaves and
\* the response it sends.
\* createUser with a push only where no record has the new _id.
createUserUnlessPresent(arr, t, body) ==
    LET newUser == Spread([_id |-> t], body)
    IN  [users |-> IF \E i \in 1..Len(arr) : arr[i]._id = newUser._id
                   THEN arr ELSE Append(arr, newUser),
         resp |-> Reply(201, [success |-> TRUE,
                              message |-> "User Added Successfully",
                              user |-> newUser])]

createUser(arr, t, body) ==
    LET newUser == Spread([_id |-> t], body)
    IN  [users |-> Append(arr, newUser),
         resp |-> Reply(201, [success |-> TRUE,
                              message |-> "User Added Successfully",
                              user |-> newUser])]

\* res.json(users): the array itself is the JSON body.
getAllUsers(arr) ==
    [users |-> arr, resp |-> Reply(200, [array |-> arr])]

\* getSingleUserById with users.splice(idx, 1)[0] in the place of users.find.
getSingleUserBySplice(arr, id) ==
    LET userId == Number(id)
        idx == findIndex(arr, userId)
    IN  IF idx = -1
        THEN [users |-> arr, resp |-> UserNotFound]
        ELSE [users |-> SubSeq(arr, 1, idx) \o SubSeq(arr, idx + 2, Len(arr)),
              resp |-> Reply(200, [success |-> TRUE, user |-> arr[idx + 1]])]

getSingleUserById(arr, id) ==
    LET userId == Number(id)
        idx == findIndex(arr, userId)       \* users.find: first match
    IN  IF idx = -1
        THEN [users |-> arr, resp |-> UserNotFound]
        ELSE [users |-> arr,
              resp |-> Reply(200, [success |-> TRUE, user |-> arr[idx + 1]])]

updateUser(arr, id, body) ==
    LET userId == Number(id)
        userIdx == findIndex(arr, userId)
        after == spliceReplace(arr, userIdx, Spread([_id |-> userId], body))
    IN  IF userIdx = -1
        THEN [users |-> arr, resp |-> UserNotFound]
        ELSE [users |-> after,
              resp |-> Reply(200, [success |-> TRUE,
                                   message |-> "User updated successfully",
                                   user |-> after[userIdx + 1]])]

editUser(arr, id, body) ==
    LET userId == Number(id)
        userIdx == findIndex(arr, userId)
    IN  IF userIdx = -1
        THEN [users |-> arr, resp |-> UserNotFound]
        ELSE LET user == arr[userIdx + 1]
             IN  [users |-> spliceReplace(arr, userIdx, Spread(user, body)),
                  resp |-> Reply(200, [success |-> TRUE,
                                       message |-> "User updated successfully",
                                       user |-> user])]

\* deleteUser without its userIdx === -1 return: splice(-1, 1) removes the
\* last element.
deleteUserUnguarded(arr, id) ==
    LET userId == Number(id)
        userIdx == findIndex(arr, userId)
    IN  IF userIdx = -1
        THEN [users |-> SubSeq(arr, 1, Len(arr) - 1),
              resp |-> Reply(201, [success |-> TRUE,
                                   message |-> "User deleted successfully"])]
        ELSE [users |-> spliceRemove(arr, userIdx),
              resp |-> Reply(201, [success |-> TRUE,
                                   message |-> "User deleted successfully",
                                   user |-> arr[userIdx + 1]])]

deleteUser(arr, id) ==
    LET userId == Number(id)
        userIdx == findIndex(arr, userId)
    IN  IF userIdx = -1
        THEN [users |-> arr, resp |-> UserNotFound]
        ELSE [users |-> spliceRemove(arr, userIdx),
              resp |-> Reply(201, [success |-> TRUE,
                                   message |-> "User deleted successfully",
                                   user |-> arr[userIdx + 1]])]

\* ----------------------------------------------------- product identifiers
\* An ObjectId is the number its 24 hexadecimal characters write.
HexChars == <<"0", "1", "2", "3", "4", "5", "6", "7", "8", "9",
              "a", "b", "c", "d", "e", "f">>

ObjectIdLen == 24

IsHex(c) == \E d \in 1..16 : HexChars[d] = c

HexVal(c) == (CHOOSE d \in 1..16 : HexChars[d] = c) - 1

RECURSIVE HexDigits(_, _)
HexDigits(n, len) ==
    IF len = 0 THEN << >>
    ELSE HexDigits(n \div 16, len - 1) \o <<HexChars[(n % 16) + 1]>>

\* ObjectId.toHexString(): the text a client puts in the path.
toHexString(oid) == HexDigits(oid, ObjectIdLen)

RECURSIVE HexValue(_)
HexValue(text) ==
    IF text = << >> THEN 0
    ELSE 16 * HexValue(SubSeq(text, 1, Len(text) - 1)) + HexVal(text[Len(text)])

NonHexParam == [i \in 1..ObjectIdLen |-> "z"]

\* The identifier texts requests carry, in the path or as a body's _id.
IdTexts == { toHexString(n) : n \in 1..MaxOid } \cup { NonNumericParam, NonHexParam }

\* new ObjectId(text) succeeds for 24 hexadecimal characters and throws
\* otherwise (-1 here). Computed once for the texts above.
ObjectIdOf ==
    [text \in IdTexts |->
        IF Len(text) = ObjectIdLen /\ \A i \in 1..Len(text) : IsHex(text[i])
        THEN HexValue(text) ELSE -1]

\* mongoose.Types.ObjectId.isValid(text) for a path parameter or a JSON string.
isValid(id) == ObjectIdOf[id] # -1

\* The cast of a valid text to an ObjectId (a CastError when not valid).
castObjectId(id) == ObjectIdOf[id]

\* ------------------------------------------------------------ ProductSchema
SchemaPaths == {"title", "description", "price", "discountPercentage", "rating",
                "brand", "category", "thumbnail", "images"}
\* The schema with required: true left off thumbnail.
RequiredPathsNoThumbnail == {"title", "price", "brand", "category"}
RequiredPaths == {"title", "price", "brand", "category", "thumbnail"}
NumberPaths == {"price", "discountPercentage", "rating"}
MinOf == [price |-> 0, discountPercentage |-> 0, rating |-> 0]
MaxOf == [discountPercentage |-> 50, rating |-> 5]

Restrict(f, keys) == [k \in DOMAIN f \cap keys |-> f[k]]

\* The paths of a document that fail the schema's validators.
validationErrors(doc) ==
    {k \in RequiredPaths : k \notin DOMAIN doc}
        \cup {k \in DOMAIN doc \cap DOMAIN MinOf : doc[k] < MinOf[k]}
        \cup {k \in DOMAIN doc \cap DOMAIN MaxOf : doc[k] > MaxOf[k]}

\* The key of a document in the unique index on title: a document without a
\* title is indexed under null.
NullKey == "null"
TitleKey(doc) == IF "title" \in DOMAIN doc THEN doc.title ELSE NullKey

\* The title path without unique: true: no index refuses a document.
DuplicateKeyIgnored(coll, doc) == FALSE

\* The unique index refuses doc while another document has its title key.
DuplicateKey(coll, doc) ==
    \E i \in 1..Len(coll) : coll[i]._id # doc._id /\ TitleKey(coll[i]) = TitleKey(doc)

\* 1-based position of the document with this _id, 0 when there is none.
IndexOfId(coll, oid) ==
    IF \E i \in 1..Len(coll) : coll[i]._id = oid
    THEN CHOOSE i \in 1..Len(coll) : coll[i]._id = oid
    ELSE 0

\* What an awaited store operation settles to: the error it rejects with
\* ("none" when it resolves), the document it resolves to (<< >> for null,
\* else <<doc>>) and the collection it leaves.
Settled(err, doc, coll) == [err |-> err, doc |-> doc, coll |-> coll]

\* new productModel(fields): the schema's paths of fields, the array default
\* and, unless skipId, the fresh _id.
NewDocument(fields, idPart) ==
    Spread(Spread([images |-> << >>], Restrict(fields, SchemaPaths)), idPart)

\* product.save(): validate, then insert under the unique index, with the
\* timestamps of { timestamps: true }.
save(coll, product, t, dbOk) ==
    LET stored == Spread(product, [createdAt |-> t, updatedAt |-> t])
    IN  IF validationErrors(product) # {}
        THEN Settled("ValidationError", << >>, coll)
        ELSE IF ~dbOk THEN Settled("MongoNetworkError", << >>, coll)
        ELSE IF DuplicateKey(coll, product)
        THEN Settled("MongoServerError", << >>, coll)
        ELSE Settled("none", <<stored>>, Append(coll, stored))

\* productModel.find().lean()
find(coll, dbOk) ==
    IF dbOk THEN Settled("none", coll, coll)
    ELSE Settled("MongoNetworkError", << >>, coll)

\* productModel.findById(id).lean()
findById(coll, id, dbOk) ==
    LET idx == IndexOfId(coll, castObjectId(id))
    IN  IF ~isValid(id) THEN Settled("CastError", << >>, coll)
        ELSE IF ~dbOk THEN Settled("MongoNetworkError", << >>, coll)
        ELSE IF idx = 0 THEN Settled("none", << >>, coll)
        ELSE Settled("none", <<coll[idx]>>, coll)

\* The _id a request body carries, cast: << >> when it carries none.
BodyId(body) ==
    IF "_id" \in DOMAIN body THEN [_id |-> castObjectId(body._id)] ELSE << >>

\* productModel.findOneAndReplace({ _id: id }, body, { new: true }): the
\* replacement is a new document without a fresh _id, given both timestamps;
\* no validator runs; the server refuses a changed _id and a duplicate key.
findOneAndReplace(coll, id, body, t, dbOk) ==
    LET oid == castObjectId(id)
        idx == IndexOfId(coll, oid)
        replacement == Spread(NewDocument(body, BodyId(body)),
                              [createdAt |-> t, updatedAt |-> t])
        stored == Spread(replacement, [_id |-> oid])
    IN  IF ~isValid(id) THEN Settled("CastError", << >>, coll)
        ELSE IF "_id" \in DOMAIN body /\ ~isValid(body._id)
        THEN Settled("ValidationError", << >>, coll)
        ELSE IF ~dbOk THEN Settled("MongoNetworkError", << >>, coll)
        ELSE IF idx = 0 THEN Settled("none", << >>, coll)
        ELSE IF "_id" \in DOMAIN replacement /\ replacement._id # oid
        THEN Settled("MongoServerError", << >>, coll)
        ELSE IF DuplicateKey(coll, stored)
        THEN Settled("MongoServerError", << >>, coll)
        ELSE Settled("none", <<stored>>,
                     [i \in 1..Len(coll) |-> IF i = idx THEN stored ELSE coll[i]])

\* productModel.findOneAndUpdate({ _id: id }, body, { new: true }): the body
\* becomes a $set of its schema paths plus updatedAt; no validator runs.
findOneAndUpdate(coll, id, body, t, dbOk) ==
    LET oid == castObjectId(id)
        idx == IndexOfId(coll, oid)
        set == Spread(Spread(Restrict(body, SchemaPaths), BodyId(body)),
                      [updatedAt |-> t])
        stored == Spread(coll[idx], set)
    IN  IF ~isValid(id) THEN Settled("CastError", << >>, coll)
        ELSE IF "_id" \in DOMAIN body /\ ~isValid(body._id)
        THEN Settled("CastError", << >>, coll)
        ELSE IF ~dbOk THEN Settled("MongoNetworkError", << >>, coll)
        ELSE IF idx = 0 THEN Settled("none", << >>, coll)
        ELSE IF stored._id # oid THEN Settled("MongoServerError", << >>, coll)
        ELSE IF DuplicateKey(coll, stored)
        THEN Settled("MongoServerError", << >>, coll)
        ELSE Settled("none", <<stored>>,
                     [i \in 1..Len(coll) |-> IF i = idx THEN stored ELSE coll[i]])

\* productModel.deleteMany({}) in the place of findByIdAndDelete(id): the
\* document with the id is returned and every document is removed.
deleteManyUnfiltered(coll, id, dbOk) ==
    LET idx == IndexOfId(coll, castObjectId(id))
    IN  IF ~isValid(id) THEN Settled("CastError", << >>, coll)
        ELSE IF ~dbOk THEN Settled("MongoNetworkError", << >>, coll)
        ELSE IF idx = 0 THEN Settled("none", << >>, coll)
        ELSE Settled("none", <<coll[idx]>>, << >>)

\* productModel.findByIdAndDelete(id)
findByIdAndDelete(coll, id, dbOk) ==
    LET idx == IndexOfId(coll, castObjectId(id))
    IN  IF ~isValid(id) THEN Settled("CastError", << >>, coll)
        ELSE IF ~dbOk THEN Settled("MongoNetworkError", << >>, coll)
        ELSE IF idx = 0 THEN Settled("none", << >>, coll)
        ELSE Settled("none", <<coll[idx]>>,
                     SubSeq(coll, 1, idx - 1) \o SubSeq(coll, idx + 1, Len(coll)))

\* ------------------------------------------------------ product handlers
\* !body[k]: the key is missing, or its value is 0 or the empty string.
Falsy(body, k) ==
    \/ k \notin DOMAIN body
    \/ IF k \in NumberPaths THEN body[k] = 0 ELSE body[k] = ""

\* An error envelope that leaves the message out.
FailureNoMessage(s, msg) == Reply(s, [success |-> FALSE])

Failure(s, msg) == Reply(s, [success |-> FALSE, message |-> msg])

FailureWith(s, msg, detail) ==
    Reply(s, [success |-> FALSE, message |-> msg, error |-> detail])

InvalidId == Failure(400, "Invalid productId format")
ProductNotFound == Failure(404, "Product not found")
ServerError(err) == FailureWith(500, "Server error", err)

\* Each handler maps the collection and the request to the collection it
\* leaves and the response it sends; dbOk is FALSE when the awaited store
\* operation cannot reach the database.
createProduct(coll, oid, t, body, dbOk) ==
    LET product == NewDocument(body, [_id |-> oid])
        saved == save(coll, product, t, dbOk)
    IN  IF Falsy(body, "title") \/ Falsy(body, "price")
           \/ Falsy(body, "brand") \/ Falsy(body, "category")
        THEN [products |-> coll, resp |-> Failure(400, "Missing required fields!")]
        ELSE IF saved.err = "none"
        THEN [products |-> saved.coll,
              resp |-> Reply(201, [success |-> TRUE,
                                   message |-> "Product added successfully",
                                   product |-> saved.doc[1]])]
        ELSE IF saved.err = "ValidationError"
        THEN [products |-> saved.coll,
              resp |-> FailureWith(400, "Validation error", saved.err)]
        ELSE [products |-> saved.coll, resp |-> ServerError(saved.err)]

\* getAllProducts without its products.length === 0 branch.
getAllProductsNoEmptyCheck(coll, dbOk) ==
    LET found == find(coll, dbOk)
    IN  IF found.err # "none"
        THEN [products |-> found.coll,
              resp |-> FailureWith(500, "Internal Server Error", found.err)]
        ELSE [products |-> found.coll,
              resp |-> Reply(200, [success |-> TRUE,
                                   totalProducts |-> Len(found.doc),
                                   message |-> "All products fetched successfully",
                                   products |-> found.doc])]

getAllProducts(coll, dbOk) ==
    LET found == find(coll, dbOk)
    IN  IF found.err # "none"
        THEN [products |-> found.coll,
              resp |-> FailureWith(500, "Internal Server Error", found.err)]
        ELSE IF Len(found.doc) = 0
        THEN [products |-> found.coll, resp |-> Failure(404, "No products found")]
        ELSE [products |-> found.coll,
              resp |-> Reply(200, [success |-> TRUE,
                                   totalProducts |-> Len(found.doc),
                                   message |-> "All products fetched successfully",
                                   products |-> found.doc])]

\* getSingleProductById without the CastError branch of its catch block.
getSingleProductByIdNoCastBranch(coll, id, dbOk) ==
    LET found == findById(coll, id, dbOk)
    IN  IF found.err # "none"
        THEN [products |-> found.coll, resp |-> ServerError(found.err)]
        ELSE IF found.doc = << >>
        THEN [products |-> found.coll, resp |-> ProductNotFound]
        ELSE [products |-> found.coll,
              resp |-> Reply(200, [success |-> TRUE,
                                   message |-> "Product fetched successfully",
                                   productDetails |-> found.doc[1]])]

getSingleProductById(coll, id, dbOk) ==
    LET found == findById(coll, id, dbOk)
    IN  IF found.err = "CastError"
        THEN [products |-> found.coll,
              resp |-> Failure(400, "Invalid productId format")]
        ELSE IF found.err # "none"
        THEN [products |-> found.coll, resp |-> ServerError(found.err)]
        ELSE IF found.doc = << >>
        THEN [products |-> found.coll, resp |-> ProductNotFound]
        ELSE [products |-> found.coll,
              resp |-> Reply(200, [success |-> TRUE,
                                   message |-> "Product fetched successfully",
                                   productDetails |-> found.doc[1]])]

replaceProduct(coll, id, body, t, dbOk) ==
    LET replaced == findOneAndReplace(coll, id, body, t, dbOk)
    IN  IF ~isValid(id)
        THEN [products |-> coll, resp |-> InvalidId]
        ELSE IF replaced.err = "CastError"
        THEN [products |-> replaced.coll, resp |-> InvalidId]
        ELSE IF replaced.err # "none"
        THEN [products |-> replaced.coll, resp |-> ServerError(replaced.err)]
        ELSE IF replaced.doc = << >>
        THEN [products |-> replaced.coll, resp |-> ProductNotFound]
        ELSE [products |-> replaced.coll,
              resp |-> Reply(200, [success |-> TRUE,
                                   message |-> "Product replaced successfully",
                                   updatedProduct |-> replaced.doc[1]])]

editProduct(coll, id, body, t, dbOk) ==
    LET edited == findOneAndUpdate(coll, id, body, t, dbOk)
    IN  IF edited.err = "CastError"
        THEN [products |-> edited.coll, resp |-> InvalidId]
        ELSE IF edited.err # "none"
        THEN [products |-> edited.coll, resp |-> ServerError(edited.err)]
        ELSE IF edited.doc = << >>
        THEN [products |-> edited.coll, resp |-> ProductNotFound]
        ELSE [products |-> edited.coll,
              resp |-> Reply(200, [success |-> TRUE,
                                   message |-> "Product edited successfully",
                                   editedProduct |-> edited.doc[1]])]

deleteProduct(coll, id, dbOk) ==
    LET deleted == findByIdAndDelete(coll, id, dbOk)
    IN  IF ~isValid(id)
        THEN [products |-> coll, resp |-> InvalidId]
        ELSE IF deleted.err = "CastError"
        THEN [products |-> deleted.coll, resp |-> InvalidId]
        ELSE IF deleted.err # "none"
        THEN [products |-> deleted.coll, resp |-> ServerError(deleted.err)]
        ELSE IF deleted.doc = << >>
        THEN [products |-> deleted.coll, resp |-> ProductNotFound]
        ELSE [products |-> deleted.coll,
              resp |-> Reply(200, [success |-> TRUE,
                                   message |-> "Product deleted successfully",
                                   deletedProduct |-> deleted.doc[1]])]

\* --------------------------------------------------------- product inputs
FullBody(title, price) ==
    [title |-> title, price |-> price, brand |-> "Nike", category |-> "Shoes",
     thumbnail |-> "url"]

Without(f, k) == [x \in DOMAIN f \ {k} |-> f[x]]

\* POST bodies: complete payloads (one with an optional field, one priced 0,
\* one with a rating out of range) and payloads lacking one required field.
CreateBodies ==
    { Spread(FullBody("t1", 5), [rating |-> 4]), FullBody("t2", 5),
      FullBody("t2", 0), Spread(FullBody("t2", 5), [rating |-> 9]) }
        \cup { Without(FullBody("t2", 5), k) : k \in DOMAIN FullBody("t2", 5) }

\* PUT and PATCH bodies: a complete payload, a partial one and one that
\* carries an _id.
UpdateBodies ==
    { FullBody("t2", 5), [price |-> 7], [_id |-> toHexString(1), price |-> 7] }

ProductParams == IdTexts

\* PUT and PATCH bodies whose _id is not an ObjectId text.
MalformedBodies == { [_id |-> NonNumericParam, price |-> 7] }

\* ------------------------------------------------------------ invocations
\* A handler invocation runs in segments. The thread runs a segment to its
\* end; at an await the invocation is suspended and other invocations run.
\* A slot holds one started invocation: its request, the time and ObjectId
\* it drew, what its lookup found, what its store operation settled to, the
\* number of responses it has sent and the store operations it has issued.
Slots == 1..MaxInflight

NoneFound == [idx |-> -1, user |-> << >>]
NoneSettled == Settled("none", << >>, << >>)

Slot(phase, q, t, oid, found, out, sent, ops) ==
    [phase |-> phase, q |-> q, t |-> t, oid |-> oid, found |-> found,
     out |-> out, sent |-> sent, ops |-> ops]

FreeSlot ==
    Slot("free", [op |-> "none", id |-> << >>, body |-> << >>], 0, 0,
         NoneFound, NoneSettled, 0, << >>)

Trace(sent, ops) == [sent |-> sent, ops |-> ops]
NoTrace == Trace(0, << >>)

\* ---------------------------------------------------------------- actions
\* The two routers share no state (part_003 lines 13-14 mount them on
\* separate paths over separate stores), so a run sends its requests to one
\* of them: resource is chosen at the start and never changes.
Request(op, id, body) == [op |-> op, id |-> id, body |-> body]

NoRequest == Request("none", NoParam, NoBody)
NoReply == Reply(0, << >>)

Handled(r, q) ==
    /\ resource = "users"
    /\ users' = r.users
    /\ resp' = r.resp
    /\ req' = q
    /\ UNCHANGED <<products, nextOid, connected, now, resource, inflight, running, last>>

HandledProduct(r, q) ==
    /\ resource = "products"
    /\ products' = r.products
    /\ resp' = r.resp
    /\ req' = q
    /\ nextOid' = IF Len(r.products) > Len(products) THEN nextOid + 1 ELSE nextOid
    /\ UNCHANGED <<users, connected, now, resource, inflight, running, last>>

\* The clock advances between requests; two requests can fall in one ms.
Tick ==
    /\ now < MaxTime
    /\ now' = now + 1
    /\ UNCHANGED <<users, products, nextOid, connected, resource, req, resp,
                   inflight, running, last>>

PostUser ==
    \E body \in UserBodies :
        /\ Len(users) < MaxUsers
        /\ Handled(createUser(users, now, body), Request("createUser", NoParam, body))

GetUsers ==
    Handled(getAllUsers(users), Request("getAllUsers", NoParam, NoBody))

GetUser ==
    \E id \in UserParams :
        Handled(getSingleUserById(users, id), Request("getSingleUserById", id, NoBody))

PutUser ==
    \E id \in UserParams, body \in UserBodies :
        Handled(updateUser(users, id, body), Request("updateUser", id, body))

PatchUser ==
    \E id \in UserParams, body \in UserBodies :
        Handled(editUser(users, id, body), Request("editUser", id, body))

DeleteUser ==
    \E id \in UserParams :
        Handled(deleteUser(users, id), Request("deleteUser", id, NoBody))

PostProduct ==
    \E body \in CreateBodies :
        /\ nextOid <= MaxOid
        /\ HandledProduct(createProduct(products, nextOid, now, body, connected),
                          Request("createProduct", NoParam, body))

GetProducts ==
    HandledProduct(getAllProducts(products, connected),
                   Request("getAllProducts", NoParam, NoBody))

GetProduct ==
    \E id \in ProductParams :
        HandledProduct(getSingleProductById(products, id, connected),
                       Request("getSingleProductById", id, NoBody))

PutProduct ==
    \E id \in ProductParams, body \in UpdateBodies :
        HandledProduct(replaceProduct(products, id, body, now, connected),
                       Request("replaceProduct", id, body))

PatchProduct ==
    \E id \in ProductParams, body \in UpdateBodies :
        HandledProduct(editProduct(products, id, body, now, connected),
                       Request("editProduct", id, body))

DeleteProduct ==
    \E id \in ProductParams :
        HandledProduct(deleteProduct(products, id, connected),
                       Request("deleteProduct", id, NoBody))

Init ==
    /\ users = FixtureUsers
    /\ products = << >>
    /\ nextOid = 1
    /\ connected = TRUE
    /\ now = StartTime
    /\ resource \in {"users", "products"}
    /\ req = NoRequest
    /\ resp = NoReply
    /\ inflight = [s \in Slots |-> FreeSlot]
    /\ running = 0
    /\ last = NoTrace

Next ==
    \/ Tick
    \/ PostUser
    \/ GetUsers
    \/ GetUser
    \/ PutUser
    \/ PatchUser
    \/ DeleteUser
    \/ PostProduct
    \/ GetProducts
    \/ GetProduct
    \/ PutProduct
    \/ PatchProduct
    \/ DeleteProduct

Spec == Init /\ [][Next]_vars

\* ------------------------------------------------- store and payload faults
\* The connection to the database is lost, and comes back.
Disconnect ==
    /\ resource = "products"
    /\ connected
    /\ connected' = FALSE
    /\ UNCHANGED <<users, products, nextOid, now, resource, req, resp,
                   inflight, running, last>>

Reconnect ==
    /\ resource = "products"
    /\ ~connected
    /\ connected' = TRUE
    /\ UNCHANGED <<users, products, nextOid, now, resource, req, resp,
                   inflight, running, last>>

PutMalformed ==
    \E id \in ProductParams, body \in MalformedBodies :
        HandledProduct(replaceProduct(products, id, body, now, connected),
                       Request("replaceProduct", id, body))

PatchMalformed ==
    \E id \in ProductParams, body \in MalformedBodies :
        HandledProduct(editProduct(products, id, body, now, connected),
                       Request("editProduct", id, body))

FaultNext ==
    \/ Next
    \/ Disconnect
    \/ Reconnect
    \/ PutMalformed
    \/ PatchMalformed

\* The service with a database that can fail and clients that send
\* malformed payloads.
FaultSpec == Init /\ [][FaultNext]_vars

\* ------------------------------------------------------- handler segments
\* Every handler awaiting between its lookup and the rest of its body.
SuspendsAlways(op) == TRUE

\* The handlers whose body awaits its store operation (lines 43, 75, 104,
\* 152, 196 and 245 of product.controller.js); no user handler awaits.
Suspends(op) ==
    op \in {"createProduct", "getAllProducts", "getSingleProductById",
            "replaceProduct", "editProduct", "deleteProduct"}

\* arr[idx] for a 0-based idx: << >> where JavaScript gives undefined.
elementAt(arr, idx) == IF idx + 1 \in 1..Len(arr) THEN <<arr[idx + 1]>> ELSE << >>

\* arr.splice(start, 1, item) and arr.splice(start, 1) for any start >= 0:
\* a start beyond the end is the end.
spliceIn(arr, start, item) ==
    LET s == IF start > Len(arr) THEN Len(arr) ELSE start
    IN  SubSeq(arr, 1, s) \o <<item>> \o SubSeq(arr, s + 2, Len(arr))

spliceOut(arr, start) ==
    LET s == IF start > Len(arr) THEN Len(arr) ELSE start
    IN  SubSeq(arr, 1, s) \o SubSeq(arr, s + 2, Len(arr))

\* { ...json, user }: JSON leaves out a key whose value is undefined.
WithUser(json, user) ==
    IF user = << >> THEN json ELSE Spread(json, [user |-> user[1]])

\* The first statements of a user handler: the lookup by users.find or
\* users.findIndex, and for editUser the read of users[userIdx].
userLookup(arr, q) ==
    LET idx == findIndex(arr, Number(q.id))
    IN  IF q.op \in {"getSingleUserById", "editUser"}
        THEN [idx |-> idx, user |-> elementAt(arr, idx)]
        ELSE [idx |-> idx, user |-> << >>]

\* The rest of a user handler, given what its lookup found: the check, the
\* splice on the array as it is now, and the response.
userFinish(arr, q, found) ==
    CASE q.op = "getSingleUserById" ->
            IF found.user = << >>
            THEN [users |-> arr, resp |-> UserNotFound]
            ELSE [users |-> arr,
                  resp |-> Reply(200, [success |-> TRUE, user |-> found.user[1]])]
      [] q.op = "updateUser" ->
            IF found.idx = -1
            THEN [users |-> arr, resp |-> UserNotFound]
            ELSE LET after == spliceIn(arr, found.idx,
                                       Spread([_id |-> Number(q.id)], q.body))
                 IN  [users |-> after,
                      resp |-> Reply(200, WithUser(
                                  [success |-> TRUE,
                                   message |-> "User updated successfully"],
                                  elementAt(after, found.idx)))]
      [] q.op = "editUser" ->
            IF found.idx = -1
            THEN [users |-> arr, resp |-> UserNotFound]
            ELSE [users |-> spliceIn(arr, found.idx, Spread(found.user[1], q.body)),
                  resp |-> Reply(200, [success |-> TRUE,
                                       message |-> "User updated successfully",
                                       user |-> found.user[1]])]
      [] q.op = "deleteUser" ->
            IF found.idx = -1
            THEN [users |-> arr, resp |-> UserNotFound]
            ELSE [users |-> spliceOut(arr, found.idx),
                  resp |-> Reply(201, WithUser(
                              [success |-> TRUE,
                               message |-> "User deleted successfully"],
                              elementAt(arr, found.idx)))]

\* A response before the await sent without return.
EndsNever(reply) == FALSE

\* What a handler does with a response it sends before its await: with
\* return, the invocation ends there.
Ends(reply) == reply # << >>

\* The handlers with no check before the await.
productBeginUnchecked(q) ==
    [reply |-> << >>,
     issue |-> CASE q.op = "createProduct" -> "save"
                 [] q.op = "getAllProducts" -> "find"
                 [] q.op = "getSingleProductById" -> "findById"
                 [] q.op = "replaceProduct" -> "findOneAndReplace"
                 [] q.op = "editProduct" -> "findOneAndUpdate"
                 [] q.op = "deleteProduct" -> "findByIdAndDelete"]

\* The statements of a product handler before its await: the response it
\* sends there, if any, and the store operation it goes on to issue.
productBegin(q) ==
    CASE q.op = "createProduct" ->
            IF Falsy(q.body, "title") \/ Falsy(q.body, "price")
               \/ Falsy(q.body, "brand") \/ Falsy(q.body, "category")
            THEN [reply |-> <<Failure(400, "Missing required fields!")>>, issue |-> "save"]
            ELSE [reply |-> << >>, issue |-> "save"]
      [] q.op = "getAllProducts" -> [reply |-> << >>, issue |-> "find"]
      [] q.op = "getSingleProductById" -> [reply |-> << >>, issue |-> "findById"]
      [] q.op = "replaceProduct" ->
            IF ~isValid(q.id)
            THEN [reply |-> <<InvalidId>>, issue |-> "findOneAndReplace"]
            ELSE [reply |-> << >>, issue |-> "findOneAndReplace"]
      [] q.op = "editProduct" -> [reply |-> << >>, issue |-> "findOneAndUpdate"]
      [] q.op = "deleteProduct" ->
            IF ~isValid(q.id)
            THEN [reply |-> <<InvalidId>>, issue |-> "findByIdAndDelete"]
            ELSE [reply |-> << >>, issue |-> "findByIdAndDelete"]

\* The store operations over a collection whose unique index is not
\* enforced when documents are inserted.
storeOperationUnindexed(q, coll, oid, t, dbOk) ==
    CASE q.op = "createProduct" ->
            LET product == NewDocument(q.body, [_id |-> oid])
                stored == Spread(product, [createdAt |-> t, updatedAt |-> t])
            IN  IF validationErrors(product) # {}
                THEN Settled("ValidationError", << >>, coll)
                ELSE IF ~dbOk THEN Settled("MongoNetworkError", << >>, coll)
                ELSE Settled("none", <<stored>>, Append(coll, stored))
      [] q.op = "getAllProducts" -> find(coll, dbOk)
      [] q.op = "getSingleProductById" -> findById(coll, q.id, dbOk)
      [] q.op = "replaceProduct" -> findOneAndReplace(coll, q.id, q.body, t, dbOk)
      [] q.op = "editProduct" -> findOneAndUpdate(coll, q.id, q.body, t, dbOk)
      [] q.op = "deleteProduct" -> findByIdAndDelete(coll, q.id, dbOk)

\* The awaited store operation of a product handler, applied to coll.
storeOperation(q, coll, oid, t, dbOk) ==
    CASE q.op = "createProduct" ->
            save(coll, NewDocument(q.body, [_id |-> oid]), t, dbOk)
      [] q.op = "getAllProducts" -> find(coll, dbOk)
      [] q.op = "getSingleProductById" -> findById(coll, q.id, dbOk)
      [] q.op = "replaceProduct" -> findOneAndReplace(coll, q.id, q.body, t, dbOk)
      [] q.op = "editProduct" -> findOneAndUpdate(coll, q.id, q.body, t, dbOk)
      [] q.op = "deleteProduct" -> findByIdAndDelete(coll, q.id, dbOk)

\* Mongoose raises cast and validation errors itself; every other outcome
\* comes from a command the database received.
ReachesDatabase(out) == out.err \notin {"CastError", "ValidationError"}

\* The statements of a product handler after its await: the rest of the try
\* block when the operation resolved, the catch block when it rejected.
productContinue(q, out) ==
    CASE q.op = "createProduct" ->
            IF out.err = "none"
            THEN Reply(201, [success |-> TRUE,
                             message |-> "Product added successfully",
                             product |-> out.doc[1]])
            ELSE IF out.err = "ValidationError"
            THEN FailureWith(400, "Validation error", out.err)
            ELSE ServerError(out.err)
      [] q.op = "getAllProducts" ->
            IF out.err # "none"
            THEN FailureWith(500, "Internal Server Error", out.err)
            ELSE IF Len(out.doc) = 0 THEN Failure(404, "No products found")
            ELSE Reply(200, [success |-> TRUE,
                             totalProducts |-> Len(out.doc),
                             message |-> "All products fetched successfully",
                             products |-> out.doc])
      [] q.op = "getSingleProductById" ->
            IF out.err = "CastError" THEN Failure(400, "Invalid productId format")
            ELSE IF out.err # "none" THEN ServerError(out.err)
            ELSE IF out.doc = << >> THEN ProductNotFound
            ELSE Reply(200, [success |-> TRUE,
                             message |-> "Product fetched successfully",
                             productDetails |-> out.doc[1]])
      [] q.op = "replaceProduct" ->
            IF out.err = "CastError" THEN InvalidId
            ELSE IF out.err # "none" THEN ServerError(out.err)
            ELSE IF out.doc = << >> THEN ProductNotFound
            ELSE Reply(200, [success |-> TRUE,
                             message |-> "Product replaced successfully",
                             updatedProduct |-> out.doc[1]])
      [] q.op = "editProduct" ->
            IF out.err = "CastError" THEN InvalidId
            ELSE IF out.err # "none" THEN ServerError(out.err)
            ELSE IF out.doc = << >> THEN ProductNotFound
            ELSE Reply(200, [success |-> TRUE,
                             message |-> "Product edited successfully",
                             editedProduct |-> out.doc[1]])
      [] q.op = "deleteProduct" ->
            IF out.err = "CastError" THEN InvalidId
            ELSE IF out.err # "none" THEN ServerError(out.err)
            ELSE IF out.doc = << >> THEN ProductNotFound
            ELSE Reply(200, [success |-> TRUE,
                             message |-> "Product deleted successfully",
                             deletedProduct |-> out.doc[1]])

\* ----------------------------------------------------- requests in flight
\* The requests sent while others are in flight.
AsyncUserRequests ==
    { Request("createUser", NoParam, << >>),
      Request("getAllUsers", NoParam, NoBody),
      Request("getSingleUserById", String(StartTime), NoBody),
      Request("updateUser", String(StartTime), [name |-> "b"]),
      Request("editUser", String(StartTime), [name |-> "b"]),
      Request("deleteUser", String(1), NoBody),
      Request("deleteUser", String(StartTime), NoBody) }

AsyncProductRequests ==
    { Request("createProduct", NoParam, Spread(FullBody("t1", 5), [rating |-> 4])),
      Request("createProduct", NoParam, FullBody("t2", 0)),
      Request("getAllProducts", NoParam, NoBody),
      Request("getSingleProductById", toHexString(1), NoBody),
      Request("getSingleProductById", NonHexParam, NoBody),
      Request("replaceProduct", toHexString(1), FullBody("t2", 5)),
      Request("replaceProduct", NonHexParam, [price |-> 7]),
      Request("editProduct", toHexString(1), [price |-> 7]),
      Request("editProduct", NonHexParam, [price |-> 7]),
      Request("deleteProduct", toHexString(1), NoBody),
      Request("deleteProduct", NonHexParam, NoBody) }

\* An invocation takes the first slot that is free.
LowestFree(s) ==
    /\ inflight[s].phase = "free"
    /\ \A r \in 1..(s - 1) : inflight[r].phase # "free"

\* A user request arrives while the thread is free and its handler starts:
\* createUser and getAllUsers have one segment; the others look up first and
\* keep the thread, since they do not await.
StartUser(s) ==
    \E q \in AsyncUserRequests :
        /\ resource = "users"
        /\ running = 0
        /\ LowestFree(s)
        /\ q.op = "createUser" => Len(users) < MaxUsers
        /\ IF q.op \in {"createUser", "getAllUsers"}
           THEN LET r == IF q.op = "createUser" THEN createUser(users, now, q.body)
                         ELSE getAllUsers(users)
                IN  /\ users' = r.users
                    /\ resp' = r.resp
                    /\ req' = q
                    /\ last' = Trace(1, << >>)
                    /\ UNCHANGED <<inflight, running>>
           ELSE /\ inflight' = [inflight EXCEPT ![s] =
                                  Slot("found", q, now, 0, userLookup(users, q),
                                       NoneSettled, 0, << >>)]
                /\ running' = IF Suspends(q.op) THEN 0 ELSE s
                /\ UNCHANGED <<users, req, resp, last>>
        /\ UNCHANGED <<products, nextOid, connected, now, resource>>

\* The thread runs the rest of a user handler.
FinishUser(s) ==
    /\ inflight[s].phase = "found"
    /\ running \in {0, s}
    /\ LET p == inflight[s]
           r == userFinish(users, p.q, p.found)
       IN  /\ users' = r.users
           /\ resp' = r.resp
           /\ req' = p.q
           /\ last' = Trace(p.sent + 1, p.ops)
    /\ inflight' = [inflight EXCEPT ![s] = FreeSlot]
    /\ running' = 0
    /\ UNCHANGED <<products, nextOid, connected, now, resource>>

\* A product request q arrives while the thread is free and its handler runs
\* to its await, or to the response it sends before.
BeginProduct(s, q) ==
    /\ resource = "products"
    /\ running = 0
    /\ LowestFree(s)
    /\ q.op = "createProduct" => nextOid <= MaxOid
    /\ LET b == productBegin(q)
       IN  /\ IF b.reply = << >>
              THEN UNCHANGED <<req, resp>>
              ELSE req' = q /\ resp' = b.reply[1]
           /\ IF Ends(b.reply)
              THEN /\ last' = Trace(Len(b.reply), << >>)
                   /\ UNCHANGED <<inflight, nextOid>>
              ELSE /\ inflight' = [inflight EXCEPT ![s] =
                                     Slot("awaiting", q, now,
                                          IF q.op = "createProduct"
                                          THEN nextOid ELSE 0,
                                          NoneFound, NoneSettled,
                                          Len(b.reply), <<b.issue>>)]
                   /\ nextOid' = IF q.op = "createProduct"
                                 THEN nextOid + 1 ELSE nextOid
                   /\ UNCHANGED last
    /\ UNCHANGED <<users, products, connected, now, resource, running>>

StartProduct(s) == \E q \in AsyncProductRequests : BeginProduct(s, q)

\* The store operation an invocation awaits is applied and settles.
SettleProduct(s) ==
    /\ inflight[s].phase = "awaiting"
    /\ LET p == inflight[s]
           out == storeOperation(p.q, products, p.oid, p.t, connected)
       IN  /\ products' = out.coll
           /\ inflight' = [inflight EXCEPT ![s] =
                             Slot("settled", p.q, p.t, p.oid, p.found,
                                  Settled(out.err, out.doc, << >>), p.sent, p.ops)]
    /\ UNCHANGED <<users, nextOid, connected, now, resource, req, resp, running, last>>

\* The thread resumes the invocation after its await and sends the response.
ContinueProduct(s) ==
    /\ inflight[s].phase = "settled"
    /\ running = 0
    /\ LET p == inflight[s]
       IN  /\ resp' = productContinue(p.q, p.out)
           /\ req' = p.q
           /\ last' = Trace(p.sent + 1, p.ops)
    /\ inflight' = [inflight EXCEPT ![s] = FreeSlot]
    /\ UNCHANGED <<users, products, nextOid, connected, now, resource, running>>

UserStarts == \E s \in Slots : StartUser(s)
UserFinishes == \E s \in Slots : FinishUser(s)
ProductStarts == \E s \in Slots : StartProduct(s)
ProductSettles == \E s \in Slots : SettleProduct(s)
ProductContinues == \E s \in Slots : ContinueProduct(s)

AsyncNext ==
    \/ UserStarts
    \/ UserFinishes
    \/ ProductStarts
    \/ ProductSettles
    \/ ProductContinues
    \/ Disconnect
    \/ Reconnect

\* The service with requests in flight together.
AsyncSpec == Init /\ [][AsyncNext]_vars

\* One request for each way a handler can end: created or duplicate, refused
\* before the await, listed, malformed id caught after the await, malformed
\* id refused before it, edited or absent, deleted or absent; each of them
\* fails at the store while the database is disconnected.
LiveProductRequests ==
    { Request("createProduct", NoParam, Spread(FullBody("t1", 5), [rating |-> 4])),
      Request("createProduct", NoParam, FullBody("t2", 0)),
      Request("getAllProducts", NoParam, NoBody),
      Request("getSingleProductById", NonHexParam, NoBody),
      Request("replaceProduct", NonHexParam, [price |-> 7]),
      Request("editProduct", toHexString(1), [price |-> 7]),
      Request("deleteProduct", toHexString(1), NoBody) }

StartLive(s) == \E q \in LiveProductRequests : BeginProduct(s, q)

LiveStarts == \E s \in Slots : StartLive(s)

LiveNext ==
    \/ UserStarts
    \/ UserFinishes
    \/ LiveStarts
    \/ ProductSettles
    \/ ProductContinues
    \/ Disconnect
    \/ Reconnect

\* The service where the thread goes on running a handler that can run and
\* every awaited store operation settles.
LiveSpec ==
    /\ Init
    /\ [][LiveNext]_vars
    /\ \A s \in Slots : /\ WF_vars(FinishUser(s))
                        /\ WF_vars(SettleProduct(s))
                        /\ WF_vars(ContinueProduct(s))

\* ------------------------------------------------------------------ claims
UserIdOps == {"getSingleUserById", "updateUser", "editUser", "deleteUser"}
ProductIdOps == {"getSingleProductById", "replaceProduct", "editProduct", "deleteProduct"}

\* A request was handled in this step (the clock's tick handles none).
HandlerStep == now' = now /\ connected' = connected /\ req'.op # "none"

\* C1: no two records of the in-memory store have the same _id, after any
\* sequence of POST, PUT, PATCH and DELETE requests with arbitrary bodies.
C1_UniqueIdentifiers ==
    \A i, j \in 1..Len(users) : i # j => users[i]._id # users[j]._id

\* C2: the record a successful PUT stores has the identifier of the path,
\* also when the payload carries an _id of its own.
C2_ReplaceKeepsIdentifier ==
    /\ (req.op = "updateUser" /\ resp.status = 200)
          => resp.json.user._id = Number(req.id)
    /\ (req.op = "replaceProduct" /\ resp.status = 200)
          => resp.json.updatedProduct._id = castObjectId(req.id)

\* C3: after a successful PUT, getById of the same identifier returns
\* exactly the payload's fields plus the original identifier.
C3_ReplaceThenGet ==
    (req.op = "updateUser" /\ resp.status = 200)
        => LET got == getSingleUserById(users, req.id).resp
           IN  /\ got.status = 200
               /\ got.json.user = Spread(req.body, [_id |-> Number(req.id)])

\* C4: after a successful PATCH with payload P, getById of the same
\* identifier returns the pre-merge record with P's keys set to P's values
\* and every other key unchanged.
C4_MergeThenGet ==
    [][(HandlerStep /\ req'.op = "editUser" /\ resp'.status = 200)
        => LET old == users[findIndex(users, Number(req'.id)) + 1]
               got == getSingleUserById(users', req'.id).resp
           IN  /\ got.status = 200
               /\ got.json.user = Spread(old, req'.body)]_vars

\* C5: after a successful DELETE of an identifier, getById of that
\* identifier answers 404.
C5_RemoveThenGet ==
    /\ (req.op = "deleteUser" /\ resp.status = 201)
          => getSingleUserById(users, req.id).resp.status = 404
    /\ (req.op = "deleteProduct" /\ resp.status = 200)
          => getSingleProductById(products, req.id, TRUE).resp.status = 404

\* C6: getById of the identifier carried by the record a create returned
\* finds a record equal to it, in the in-memory and in the persisted store.
C6_CreateThenGet ==
    /\ (req.op = "createUser" /\ resp.status = 201)
          => LET created == resp.json.user
                 got == getSingleUserById(users, String(created._id)).resp
             IN  got.status = 200 /\ got.json.user = created
    /\ (req.op = "createProduct" /\ resp.status = 201)
          => LET created == resp.json.product
                 got == getSingleProductById(products, toHexString(created._id),
                                             TRUE).resp
             IN  got.status = 200 /\ got.json.productDetails = created

\* The text is a decimal literal / is 24 hexadecimal characters.
IsNumericText(text) == text # << >> /\ \A i \in 1..Len(text) : IsDigit(text[i])
Is24Hex(text) == Len(text) = 24 /\ \A i \in 1..Len(text) : IsHex(text[i])

C8_MissingRequiredField ==
    [][(/\ HandlerStep
        /\ req'.op = "createProduct"
        /\ \E k \in {"title", "price", "brand", "category", "thumbnail"} :
              k \notin DOMAIN req'.body)
        => (/\ resp'.status = 400
            /\ resp'.json.success = FALSE
            /\ products' = products)]_vars

\* A create lacking only thumbnail, which the handler's own check lets
\* through, was refused by the schema on a store that holds a product.
C8_Witness ==
    /\ req.op = "createProduct"
    /\ DOMAIN req.body = {"title", "price", "brand", "category"}
    /\ resp.status = 400
    /\ resp.json.message = "Validation error"
    /\ products # << >>

\* C9: on the persisted store GET /:id, PUT, PATCH and DELETE with an
\* identifier that is not 24 hexadecimal characters answer 400, never 404.
C9_MalformedIdIs400 ==
    (req.op \in ProductIdOps /\ ~Is24Hex(req.id)) => resp.status = 400

\* A GET /:id with 24 characters that are not hexadecimal was answered 400.
C9_Witness ==
    /\ req.op = "getSingleProductById"
    /\ Len(req.id) = 24
    /\ ~Is24Hex(req.id)
    /\ resp.status = 400

Awaited(q) ==
    CASE q.op = "createProduct" ->
            IF Falsy(q.body, "title") \/ Falsy(q.body, "price")
               \/ Falsy(q.body, "brand") \/ Falsy(q.body, "category")
            THEN Settled("ValidationError", << >>, products)
            ELSE save(products, NewDocument(q.body, [_id |-> nextOid]), now, connected)
      [] q.op = "getAllProducts" -> find(products, connected)
      [] q.op = "getSingleProductById" -> findById(products, q.id, connected)
      [] q.op = "replaceProduct" ->
            findOneAndReplace(products, q.id, q.body, now, connected)
      [] q.op = "editProduct" ->
            findOneAndUpdate(products, q.id, q.body, now, connected)
      [] q.op = "deleteProduct" -> findByIdAndDelete(products, q.id, connected)

ProductOps == ProductIdOps \cup {"createProduct", "getAllProducts"}

\* C11: whatever error arises while a product request is handled, the
\* handler answers with an error envelope: 400 for a validation error, 400
\* for a malformed identifier, 404 when no record matches, 500 for any
\* other failure of the store.
C11_ErrorMapping ==
    [][(HandlerStep /\ req'.op \in ProductOps)
        => LET r == Awaited(req')
           IN  /\ resp'.status \in {200, 201, 400, 404, 500}
               /\ r.err # "none" => resp'.json.success = FALSE
               /\ r.err = "ValidationError" => resp'.status = 400
               /\ r.err = "CastError" => resp'.status = 400
               /\ (r.err = "none" /\ r.doc = << >> /\ req'.op \in ProductIdOps)
                     => resp'.status = 404
               /\ r.err \notin {"none", "ValidationError", "CastError"}
                     => resp'.status = 500]_vars

\* C12: every stored product satisfies the schema: title, price, brand,
\* category and thumbnail are present, price is at least 0,
\* discountPercentage lies in 0..50 and rating in 0..5 when present.
C12_StoredProductsSatisfySchema ==
    \A i \in 1..Len(products) :
        LET p == products[i]
        IN  /\ {"title", "price", "brand", "category", "thumbnail"} \subseteq DOMAIN p
            /\ p.price >= 0
            /\ "discountPercentage" \in DOMAIN p
                  => (p.discountPercentage >= 0 /\ p.discountPercentage <= 50)
            /\ "rating" \in DOMAIN p => (p.rating >= 0 /\ p.rating <= 5)

C14_CreateAcceptsValidPayload ==
    [][(/\ HandlerStep
        /\ req'.op = "createProduct"
        /\ {"title", "price", "brand", "category", "thumbnail"} \subseteq DOMAIN req'.body
        /\ req'.body.price >= 0
        /\ validationErrors(req'.body) = {}
        /\ \A i \in 1..Len(products) : TitleKey(products[i]) # req'.body.title)
        => (/\ resp'.status = 201
            /\ Len(products') = Len(products) + 1
            /\ SubSeq(products', 1, Len(products)) = products
            /\ products'[Len(products')] = resp'.json.product)]_vars

\* C15: a successful PATCH answers 200 with the record as it is after the
\* merge, the one stored at the position of the record it updated, in the
\* in-memory and in the persisted store.
C15_PatchReturnsMergedRecord ==
    [][/\ (HandlerStep /\ req'.op = "editUser" /\ resp'.status = 200)
          => resp'.json.user = users'[findIndex(users, Number(req'.id)) + 1]
       /\ (HandlerStep /\ req'.op = "editProduct" /\ resp'.status = 200)
          => resp'.json.editedProduct
                = products'[IndexOfId(products, castObjectId(req'.id))]]_vars

\* C16: a successful DELETE answers 200 or 201 with the record that was in
\* the store under that identifier, and the store it leaves is the store
\* before without that one record: no record carries the identifier any
\* more unless the store held it twice.
C16_DeleteReturnsRemovedRecord ==
    [][/\ (HandlerStep /\ req'.op = "deleteUser" /\ resp'.json.success)
          => LET idx == findIndex(users, Number(req'.id))
             IN  /\ idx # -1
                 /\ resp'.status \in {200, 201}
                 /\ resp'.json.user = users[idx + 1]
                 /\ users' = SubSeq(users, 1, idx) \o SubSeq(users, idx + 2, Len(users))
                 /\ (\A i \in 1..Len(users) : i # idx + 1 => users[i]._id # users[idx + 1]._id)
                       => \A i \in 1..Len(users') : users'[i]._id # Number(req'.id)
       /\ (HandlerStep /\ req'.op = "deleteProduct" /\ resp'.json.success)
          => LET idx == IndexOfId(products, castObjectId(req'.id))
             IN  /\ idx # 0
                 /\ resp'.status \in {200, 201}
                 /\ resp'.json.deletedProduct = products[idx]
                 /\ products' = SubSeq(products, 1, idx - 1)
                                    \o SubSeq(products, idx + 1, Len(products))
                 /\ \A i \in 1..Len(products') :
                       products'[i]._id # castObjectId(req'.id)]_vars

\* A DELETE removed the first of two users and answered with it.
C16_Witness ==
    /\ req.op = "deleteUser"
    /\ resp.status = 201
    /\ Len(users) = 1
    /\ users[1]._id # resp.json.user._id

\* The response is a JSON object with a boolean success field, and an error
\* response has success false and a message.
Enveloped(r) ==
    /\ "success" \in DOMAIN r.json
    /\ r.json.success \in BOOLEAN
    /\ r.status >= 400 => (/\ r.json.success = FALSE
                           /\ "message" \in DOMAIN r.json
                           /\ r.json.message # "")

\* C17 as claimed: every response of every handler of both resource types
\* is a JSON object with a boolean success field; every error response has
\* success false and a human-readable message.
C17_EnvelopeAlways == req.op # "none" => Enveloped(resp)

\* C17 as amended: every response is such an envelope except that of the
\* in-memory read-all, which answers 200 with the bare array of records.
C17_EnvelopeExceptUserList ==
    /\ (req.op # "none" /\ req.op # "getAllUsers") => Enveloped(resp)
    /\ req.op = "getAllUsers" => (resp.status = 200 /\ resp.json = [array |-> users])

\* A product request was answered 500 while the database was unreachable.
C17_Witness ==
    /\ req.op \in ProductOps
    /\ resp.status = 500
    /\ ~connected

\* C18: read-all on the in-memory store answers 200 with every record; on
\* the persisted store, while the database is reachable, it answers 404
\* "No products found" exactly when the collection is empty and otherwise
\* 200 with every stored record and their number as totalProducts.
C18_ReadAll ==
    [][/\ (HandlerStep /\ req'.op = "getAllUsers")
          => (/\ resp'.status = 200
              /\ resp'.json.array = users
              /\ users' = users)
       /\ (HandlerStep /\ req'.op = "getAllProducts" /\ connected)
          => (/\ products' = products
              /\ IF products = << >>
                 THEN /\ resp'.status = 404
                      /\ resp'.json.success = FALSE
                      /\ resp'.json.message = "No products found"
                 ELSE /\ resp'.status = 200
                      /\ resp'.json.products = products
                      /\ resp'.json.totalProducts = Len(products))]_vars

\* Read-all answered 200 with both products of the collection.
C18_Witness ==
    /\ req.op = "getAllProducts"
    /\ resp.status = 200
    /\ resp.json.totalProducts = 2
    /\ resp.json.products = products

\* C19: the identifier of the record a successful create adds differs from
\* the identifier of every record the store held before it, whatever the
\* body and however close in time to another create.
C19_CreateAssignsFreshIdentifier ==
    [][/\ (HandlerStep /\ req'.op = "createUser" /\ resp'.status = 201)
          => \A i \in 1..Len(users) : users[i]._id # resp'.json.user._id
       /\ (HandlerStep /\ req'.op = "createProduct" /\ resp'.status = 201)
          => \A i \in 1..Len(products) :
                products[i]._id # resp'.json.product._id]_vars

\* C20: in the in-memory store read-all answers with the records in store
\* order, create appends its record at the end, replace and merge leave
\* the updated record where it was and every other record untouched, and
\* remove takes one record out and keeps the order of the others.
C20_OrderPreserved ==
    [][/\ (HandlerStep /\ req'.op = "getAllUsers") => resp'.json.array = users
       /\ (HandlerStep /\ req'.op = "createUser" /\ resp'.status = 201)
          => (/\ Len(users') = Len(users) + 1
              /\ SubSeq(users', 1, Len(users)) = users
              /\ users'[Len(users')] = resp'.json.user)
       /\ (HandlerStep /\ req'.op \in {"updateUser", "editUser"} /\ resp'.status = 200)
          => LET k == findIndex(users, Number(req'.id)) + 1
             IN  /\ Len(users') = Len(users)
                 /\ \A i \in 1..Len(users) : i # k => users'[i] = users[i]
                 /\ \A key \in DOMAIN req'.body : users'[k][key] = req'.body[key]
       /\ (HandlerStep /\ req'.op = "deleteUser" /\ resp'.status = 201)
          => \E k \in 1..Len(users) :
                users' = SubSeq(users, 1, k - 1) \o SubSeq(users, k + 1, Len(users))]_vars

\* A PUT replaced the first of two different records where it was.
C20_Witness ==
    /\ req.op = "updateUser"
    /\ resp.status = 200
    /\ Len(users) = 2
    /\ users[1] = resp.json.user
    /\ users[2] # users[1]

\* C21: a PUT that repeats the PUT just answered 200 (same identifier, same
\* payload, no request in between) leaves the store as the first left it
\* and is answered as the first was.
C21_PutIdempotent ==
    [][(/\ HandlerStep
        /\ req'.op \in {"updateUser", "replaceProduct"}
        /\ req' = req
        /\ resp.status = 200)
        => (users' = users /\ products' = products /\ resp' = resp)]_vars

\* C22: a DELETE that repeats the DELETE just answered with success (same
\* identifier, no request in between) leaves the store unchanged and is
\* answered 404.
C22_DeleteIdempotent ==
    [][(/\ HandlerStep
        /\ req'.op \in {"deleteUser", "deleteProduct"}
        /\ req' = req
        /\ resp.status \in {200, 201})
        => (users' = users /\ products' = products /\ resp'.status = 404)]_vars

Others(arr, n) == SelectSeq(arr, LAMBDA r : r._id # n)

\* The positions at which two stores of the same length differ.
Touched(before, after) == {i \in 1..Len(before) : after[i] # before[i]}

\* C24: a successful replace or merge changes at most one record and no
\* record with a different identifier; a successful remove takes out one
\* record and leaves the records with a different identifier as they were;
\* a create leaves every record the store held as it was.
C24_OneRecordTouched ==
    [][/\ (HandlerStep /\ req'.op \in {"updateUser", "editUser"} /\ resp'.status = 200)
          => (/\ Len(users') = Len(users)
              /\ Cardinality(Touched(users, users')) <= 1
              /\ \A i \in 1..Len(users) :
                    users[i]._id # Number(req'.id) => users'[i] = users[i])
       /\ (HandlerStep /\ req'.op = "deleteUser" /\ resp'.status = 201)
          => (/\ Len(users') = Len(users) - 1
              /\ Others(users', Number(req'.id)) = Others(users, Number(req'.id)))
       /\ (HandlerStep /\ req'.op = "createUser")
          => SubSeq(users', 1, Len(users)) = users
       /\ (HandlerStep /\ req'.op \in {"replaceProduct", "editProduct"} /\ resp'.status = 200)
          => (/\ Len(products') = Len(products)
              /\ Cardinality(Touched(products, products')) <= 1
              /\ \A i \in 1..Len(products) :
                    products[i]._id # castObjectId(req'.id) => products'[i] = products[i])
       /\ (HandlerStep /\ req'.op = "deleteProduct" /\ resp'.status = 200)
          => (/\ Len(products') = Len(products) - 1
              /\ Others(products', castObjectId(req'.id))
                    = Others(products, castObjectId(req'.id)))
       /\ (HandlerStep /\ req'.op = "createProduct")
          => SubSeq(products', 1, Len(products)) = products]_vars

\* A DELETE removed one of two products and the other is still stored.
C24_Witness ==
    /\ req.op = "deleteProduct"
    /\ resp.status = 200
    /\ Len(products) = 1
    /\ products[1]._id # resp.json.deletedProduct._id

ReadOps == {"getAllUsers", "getSingleUserById", "getAllProducts", "getSingleProductById"}

\* C25: a GET / or GET /:id, whatever it is answered (200, 404, 400 or
\* 500), leaves both stores holding exactly the records they held.
C25_ReadsDoNotModify ==
    [][(HandlerStep /\ req'.op \in ReadOps)
        => (users' = users /\ products' = products)]_vars

\* A GET /:id found a record of a store of two and was answered 200.
C25_Witness ==
    /\ req.op = "getSingleUserById"
    /\ resp.status = 200
    /\ Len(users) = 2

\* ---- C26
\* A finished product request by identifier whose identifier is malformed,
\* and a started one.
MalformedDone == resource = "products" /\ req.op \in ProductIdOps /\ ~Is24Hex(req.id)
MalformedIn(s) ==
    /\ inflight[s].phase # "free"
    /\ inflight[s].q.op \in ProductIdOps
    /\ ~Is24Hex(inflight[s].q.id)

\* C26 as stated: GET /:id, PUT, PATCH and DELETE with a malformed
\* identifier answer 400 without having issued any store operation.
C26_NoStoreOperationIssued ==
    MalformedDone => (resp.status = 400 /\ last.ops = << >>)

\* C26 amended: a malformed identifier is answered 400 and never reaches
\* the database. PUT and DELETE answer before issuing any store operation;
\* GET /:id and PATCH issue theirs, which rejects with a cast error without
\* a command reaching the database and leaves the collection as it was.
C26_RejectedBeforeDatabase ==
    /\ [](/\ MalformedDone =>
                /\ resp.status = 400
                /\ req.op \in {"replaceProduct", "deleteProduct"} => last.ops = << >>
                /\ req.op = "getSingleProductById" => last.ops = <<"findById">>
                /\ req.op = "editProduct" => last.ops = <<"findOneAndUpdate">>
          /\ \A s \in Slots :
                MalformedIn(s) =>
                    /\ inflight[s].q.op \in {"getSingleProductById", "editProduct"}
                    /\ inflight[s].phase = "settled" =>
                          /\ inflight[s].out.err = "CastError"
                          /\ ~ReachesDatabase(inflight[s].out))
    /\ [][\A s \in Slots :
              (MalformedIn(s) /\ inflight[s].phase = "awaiting"
               /\ inflight'[s].phase = "settled") => products' = products]_vars

\* A PATCH with a malformed identifier was answered 400 after its store
\* operation was issued, while the database was disconnected and the
\* collection held a record.
C26_Witness ==
    /\ MalformedDone
    /\ req.op = "editProduct"
    /\ resp.status = 400
    /\ last.ops = <<"findOneAndUpdate">>
    /\ ~connected
    /\ Len(products) = 1

\* ---- C27
\* The whole handler of a user request by identifier, run on arr.
userHandler(arr, q) ==
    CASE q.op = "getSingleUserById" -> getSingleUserById(arr, q.id)
      [] q.op = "updateUser" -> updateUser(arr, q.id, q.body)
      [] q.op = "editUser" -> editUser(arr, q.id, q.body)
      [] q.op = "deleteUser" -> deleteUser(arr, q.id)

\* C27: a user handler that has done its lookup keeps the thread until its
\* response, so no other handler runs in between, and the array and the
\* response it leaves are those of the whole handler run at that moment on
\* the array left by the handlers that ended before it: the requests in
\* flight are served one after another.
C27_UserHandlersAtomic ==
    /\ [](\A s \in Slots : inflight[s].phase = "found" => running = s)
    /\ [][\A s \in Slots :
              (inflight[s].phase = "found" /\ inflight'[s].phase = "free") =>
                  LET r == userHandler(users, inflight[s].q)
                  IN  /\ users' = r.users
                      /\ resp' = r.resp
                      /\ req' = inflight[s].q]_vars

\* A DELETE has done its lookup and holds the thread, after an earlier
\* request changed the array.
C27_Witness ==
    \E s \in Slots :
        /\ inflight[s].phase = "found"
        /\ inflight[s].q.op = "deleteUser"
        /\ inflight[s].found.idx # -1
        /\ running = s
        /\ users # FixtureUsers

\* ---- C28
\* The whole handler of a product request, run on coll with the ObjectId
\* and the time the invocation drew.
productHandler(coll, q, oid, t, dbOk) ==
    CASE q.op = "createProduct" -> createProduct(coll, oid, t, q.body, dbOk)
      [] q.op = "getAllProducts" -> getAllProducts(coll, dbOk)
      [] q.op = "getSingleProductById" -> getSingleProductById(coll, q.id, dbOk)
      [] q.op = "replaceProduct" -> replaceProduct(coll, q.id, q.body, t, dbOk)
      [] q.op = "editProduct" -> editProduct(coll, q.id, q.body, t, dbOk)
      [] q.op = "deleteProduct" -> deleteProduct(coll, q.id, dbOk)

\* C28: with product requests in flight together, every invocation has
\* issued at most one store operation (exactly one while it is suspended),
\* and the requests are served as if one after another in the order in
\* which their store operations settle: when an operation settles, the
\* collection it leaves and the response the handler will send are those of
\* the whole handler run at that moment; that response is the one sent; a
\* request answered before its await leaves the collection alone and gets
\* the whole handler's response. No lock is held.
C28_OneOperationSerialOrder ==
    /\ [](/\ Len(last.ops) <= 1
          /\ \A s \in Slots :
                /\ Len(inflight[s].ops) <= 1
                /\ inflight[s].phase \in {"awaiting", "settled"} =>
                      Len(inflight[s].ops) = 1)
    /\ [][/\ \A s \in Slots :
                (inflight[s].phase = "awaiting" /\ inflight'[s].phase = "settled") =>
                    LET p == inflight[s]
                        r == productHandler(products, p.q, p.oid, p.t, connected)
                    IN  /\ products' = r.products
                        /\ productContinue(p.q, inflight'[s].out) = r.resp
          /\ \A s \in Slots :
                (inflight[s].phase = "settled" /\ inflight'[s].phase = "free") =>
                    /\ resp' = productContinue(inflight[s].q, inflight[s].out)
                    /\ req' = inflight[s].q
                    /\ products' = products
          /\ (/\ resource = "products"
               /\ inflight' = inflight
               /\ connected' = connected
               /\ <<req, resp, last>>' # <<req, resp, last>>) =>
                    /\ products' = products
                    /\ resp' = productHandler(products, req', nextOid, now, connected).resp
          ]_vars

\* A replace and a delete of the same stored product are in flight
\* together: the delete has settled and removed it, the replace still waits.
C28_Witness ==
    \E s, r \in Slots :
        /\ inflight[s].phase = "awaiting"
        /\ inflight[s].q.op = "replaceProduct"
        /\ Is24Hex(inflight[s].q.id)
        /\ inflight[r].phase = "settled"
        /\ inflight[r].q.op = "deleteProduct"
        /\ inflight[r].q.id = inflight[s].q.id
        /\ inflight[r].out.err = "none"
        /\ inflight[r].out.doc # << >>

\* ---- C29
\* C29: every started invocation of a user or product handler comes to its
\* end, given that its awaited store operation settles, and has then sent
\* exactly one response: an invocation still under way has sent none, and
\* the invocation that ended last has sent one, whether it succeeded, was
\* refused for its payload or its identifier, found nothing or met a store
\* failure.
C29_ExactlyOneResponse ==
    /\ [](/\ req.op # "none" => (last.sent = 1 /\ resp.status \in 200..599)
          /\ \A s \in Slots : inflight[s].phase # "free" => inflight[s].sent = 0)
    /\ \A s \in Slots : []<>(inflight[s].phase = "free")

\* A create that met a store failure was answered once, with 500, while
\* another invocation was still waiting for its store operation.
C29_Witness ==
    /\ req.op = "createProduct"
    /\ resp.status = 500
    /\ "error" \in DOMAIN resp.json
    /\ resp.json.error = "MongoNetworkError"
    /\ last.sent = 1
    /\ \E s \in Slots : inflight[s].phase = "awaiting"

====
